---- MODULE Spec2Model ----
(***************************************************************************)
(* Workflow execution engine of nodebase: the topological sorter           *)
(* (src/inngest/utils.ts), the executor registry, the node executors and   *)
(* the executeWorkflow orchestrator (src/inngest/functions.ts).            *)
(*                                                                         *)
(* Node ids are the integers 1..n: the sorter and the orchestrator never   *)
(* compare ids other than for equality, so a node list with distinct ids   *)
(* is, up to renaming, the list <<1, .., n>> in its input order.           *)
(***************************************************************************)
EXTENDS Integers, Sequences, FiniteSets, TLC

\* ------------------------------------------------------------------ bounds
SortMaxNodes == 3      \* nodes of a workflow handed to the sorter alone
SortMaxConns == 3      \* connections of a workflow handed to the sorter alone
RunMaxNodes == 2       \* nodes of a workflow that is executed
RunMaxConns == 2       \* connections of a workflow that is executed
ConcMaxNodes == 2      \* nodes of a workflow that two runs execute at once
HookMaxMessages == 3   \* messages the subscription of useNodeStatus receives
EditorMaxNodes == 3    \* nodes of the graph in the editor
EditorMaxEdges == 3    \* edges of the graph in the editor
MaxRenames == 2        \* renames of one workflow that overlap
MaxClicks == 2         \* clicks on the Execute Workflow button
MaxEdits == 2          \* changes made to the graph on screen

\* ------------------------------------------------------------ small helpers
SeqToSet(s) == {s[i] : i \in 1..Len(s)}

\* Insertion into a JavaScript Set / Map: a new element goes to the end, an
\* element already present keeps its place.
AppendNew(s, x) == IF x \in SeqToSet(s) THEN s ELSE Append(s, x)

\* The elements of the sequence are pairwise distinct.
Distinct(s) == \A i, j \in 1..Len(s) : s[i] = s[j] => i = j

\* A value that is absent (undefined) in the JavaScript object.
Missing == "<missing>"

\* --------------------------------------------------------------- node types
NodeTypes == {"INITIAL", "MANUAL_TRIGGER", "HTTP_REQUEST", "GOOGLE_FORM_TRIGGER", "STRIPE_TRIGGER"}

\* The data of a node that configures nothing.
\* An absent or empty template string is the empty sequence of parts: the
\* code tests both with !value.
NoData == [endpoint |-> <<>>, variableName |-> Missing, method |-> Missing, body |-> <<>>]

\* ------------------------------------------------------ the toposort package
\* toposort(edges), the npm package imported by utils.ts: a depth-first
\* search over the edge list.  Its nodes are the ids in order of first
\* appearance in the edges; it visits them from the last to the first, each
\* node's outgoing targets from the last to the first, and writes a node in
\* front of the result once its targets are placed.  Meeting a node that is
\* on the current path throws 'Cyclic dependency'.
uniqueNodes(arr) ==
  LET RECURSIVE from(_, _)
      from(i, res) == IF i > Len(arr) THEN res
                      ELSE from(i + 1, AppendNew(AppendNew(res, arr[i][1]), arr[i][2]))
  IN from(1, <<>>)

makeOutgoingEdges(arr, node) ==
  LET RECURSIVE from(_, _)
      from(i, res) == IF i > Len(arr) THEN res
                      ELSE from(i + 1, IF arr[i][1] = node THEN AppendNew(res, arr[i][2]) ELSE res)
  IN from(1, <<>>)

CyclicDependency == "Cyclic dependency"

RECURSIVE visit(_, _, _, _)
RECURSIVE visitOutgoing(_, _, _, _, _)
visit(edges, node, predecessors, st) ==
  IF st.threw THEN st
  ELSE IF node \in predecessors THEN [st EXCEPT !.threw = TRUE, !.message = CyclicDependency]
  ELSE IF node \in st.visited THEN st
  ELSE LET outgoing == makeOutgoingEdges(edges, node)
           entered == [st EXCEPT !.visited = @ \cup {node}]
           after == visitOutgoing(edges, outgoing, Len(outgoing), predecessors \cup {node}, entered)
       IN IF after.threw THEN after ELSE [after EXCEPT !.sorted = <<node>> \o @]

visitOutgoing(edges, outgoing, i, predecessors, st) ==
  IF i = 0 \/ st.threw THEN st
  ELSE visitOutgoing(edges, outgoing, i - 1, predecessors,
                     visit(edges, outgoing[i], predecessors, st))

toposort(edges) ==
  LET nodes == uniqueNodes(edges)
      RECURSIVE loop(_, _)
      loop(i, st) == IF i = 0 \/ st.threw THEN st
                     ELSE loop(i - 1, visit(edges, nodes[i], {}, st))
  IN loop(Len(nodes), [visited |-> {}, sorted |-> <<>>, threw |-> FALSE, message |-> ""])

\* ---------------------------------------------------------- topologicalSort
CycleDetected == "Cycle detected in workflow connections"

\* e.message.includes("Cyclic"), over the messages toposort can throw.
IncludesCyclic(message) == message = CyclicDependency

\* The self-edges pushed for the nodes that no connection references.
SelfEdges(nodes, connections) ==
  LET connectedNodeIds == {c.fromNodeId : c \in SeqToSet(connections)}
                            \cup {c.toNodeId : c \in SeqToSet(connections)}
      RECURSIVE from(_, _)
      from(i, res) == IF i > Len(nodes) THEN res
                      ELSE from(i + 1, IF nodes[i].id \notin connectedNodeIds
                                       THEN Append(res, <<nodes[i].id, nodes[i].id>>)
                                       ELSE res)
  IN from(1, <<>>)

\* [...new Set(ids)]
Dedupe(ids) ==
  LET RECURSIVE from(_, _)
      from(i, res) == IF i > Len(ids) THEN res ELSE from(i + 1, AppendNew(res, ids[i]))
  IN from(1, <<>>)

\* ids.map(id => nodeMap.get(id)).filter(Boolean); of two nodes with one id
\* the Map keeps the later one.
MapToNodes(ids, nodes) ==
  LET known == {nodes[i].id : i \in 1..Len(nodes)}
      nodeOf(id) == nodes[CHOOSE i \in 1..Len(nodes) :
                            nodes[i].id = id /\ \A j \in (i + 1)..Len(nodes) : nodes[j].id # id]
      RECURSIVE from(_, _)
      from(i, res) == IF i > Len(ids) THEN res
                      ELSE from(i + 1, IF ids[i] \in known THEN Append(res, nodeOf(ids[i])) ELSE res)
  IN from(1, <<>>)

\* A sorter that swallows the error of toposort and returns the nodes as given.
topologicalSort_Swallow(nodes, connections) ==
  IF Len(connections) = 0 THEN [threw |-> FALSE, message |-> "", nodes |-> nodes]
  ELSE LET edges == [i \in 1..Len(connections) |->
                       <<connections[i].fromNodeId, connections[i].toNodeId>>]
                    \o SelfEdges(nodes, connections)
           r == toposort(edges)
       IN IF r.threw
          THEN [threw |-> FALSE, message |-> "", nodes |-> nodes]
          ELSE [threw |-> FALSE, message |-> "", nodes |-> MapToNodes(Dedupe(r.sorted), nodes)]

\* A sorter without the early return for an empty connection list.
topologicalSort_NoEarlyReturn(nodes, connections) ==
  LET edges == [i \in 1..Len(connections) |->
                  <<connections[i].fromNodeId, connections[i].toNodeId>>]
               \o SelfEdges(nodes, connections)
      r == toposort(edges)
  IN IF r.threw
     THEN [threw |-> TRUE,
           message |-> IF IncludesCyclic(r.message) THEN CycleDetected ELSE r.message,
           nodes |-> <<>>]
     ELSE [threw |-> FALSE, message |-> "", nodes |-> MapToNodes(Dedupe(r.sorted), nodes)]

topologicalSort(nodes, connections) ==
  IF Len(connections) = 0 THEN [threw |-> FALSE, message |-> "", nodes |-> nodes]
  ELSE LET edges == [i \in 1..Len(connections) |->
                       <<connections[i].fromNodeId, connections[i].toNodeId>>]
                    \o SelfEdges(nodes, connections)
           r == toposort(edges)
       IN IF r.threw
          THEN [threw |-> TRUE,
                message |-> IF IncludesCyclic(r.message) THEN CycleDetected ELSE r.message,
                nodes |-> <<>>]
          ELSE [threw |-> FALSE, message |-> "", nodes |-> MapToNodes(Dedupe(r.sorted), nodes)]

\* ----------------------------------------------------------- stored workflows
\* The connections a workflow of n nodes can have: a list of the given
\* length of distinct connections between its nodes, ids 1..n.
ConnectionLists(n, length) ==
  {c \in [1..length -> [fromNodeId : 1..n, toNodeId : 1..n]] : Distinct(c)}

\* No connection of the list joins a node to itself.
NoSelfConnection(connections) ==
  \A i \in 1..Len(connections) : connections[i].fromNodeId # connections[i].toNodeId

PlainNodes(n) == [i \in 1..n |-> [id |-> i, type |-> "INITIAL", data |-> NoData]]

\* The n nodes listed in the given order of their ids.
NodesInOrder(n, order) == [i \in 1..n |-> PlainNodes(n)[order[i]]]

\* ------------------------------------------------------- values and contexts
\* JSON values: a number, a string or an object, each with its text.
Num(s) == [t |-> "num", s |-> s]
Str(s) == [t |-> "str", s |-> s]
Obj(s) == [t |-> "obj", s |-> s]

EmptyContext == <<>>

\* The spread written after the new key: { [key]: value, ...context }.
Spread_KeepOld(context, key, value) ==
  [k \in DOMAIN context \cup {key} |-> IF k \in DOMAIN context THEN context[k] ELSE value]

\* { ...context, [key]: value }
Spread(context, key, value) ==
  [k \in DOMAIN context \cup {key} |-> IF k = key THEN value ELSE context[k]]

\* ------------------------------------------------------------------ templates
\* A Handlebars template is a sequence of parts: literal text, a {{key}}
\* reference, or a part that does not parse.  Rendering yields the sequence
\* of the non-empty texts it writes; the empty sequence is the empty string.
Lit(text) == [kind |-> "lit", text |-> text]
Var(key) == [kind |-> "var", text |-> key]
BadPart == [kind |-> "bad", text |-> "{{"]

\* What Handlebars writes for a value: the text of a number or a string,
\* [object Object] for an object.
ToText(value) ==
  IF "t" \in DOMAIN value /\ value.t \in {"num", "str"} THEN value.s ELSE "[object Object]"

HandlebarsRender(template, context) ==
  LET RECURSIVE from(_, _)
      from(i, out) ==
        IF i > Len(template) THEN [threw |-> FALSE, out |-> out]
        ELSE LET part == template[i]
             IN IF part.kind = "bad" THEN [threw |-> TRUE, out |-> <<>>]
                ELSE IF part.kind = "lit" THEN from(i + 1, Append(out, part.text))
                ELSE IF part.text \in DOMAIN context /\ ToText(context[part.text]) # ""
                     THEN from(i + 1, Append(out, ToText(context[part.text])))
                     ELSE from(i + 1, out)
  IN from(1, <<>>)

\* ----------------------------------------------------------------- JSON texts
NumericTexts == {"7", "1"}

\* JSON.parse succeeds on a rendered request body.
IsJsonBody(out) ==
  \/ out = <<"{}">>
  \/ Len(out) = 3 /\ out[1] = "{\"id\":" /\ out[2] \in NumericTexts /\ out[3] = "}"

\* response.json() of a response body text.
ParseJson(text) ==
  IF text \in NumericTexts THEN [threw |-> FALSE, value |-> Num(text)]
  ELSE IF text = "{\"a\":1}" THEN [threw |-> FALSE, value |-> Obj(text)]
  ELSE [threw |-> TRUE, value |-> Str("")]

\* A comparison with === in place of includes.
IncludesJson_Exact(contentType) == contentType = <<"application/json">>

\* contentType.includes("application/json"), a header value being the
\* sequence of its media type and parameters.
IncludesJson(contentType) == \E i \in 1..Len(contentType) : contentType[i] = "application/json"

\* method.toUpperCase()
ToUpperCase(method) == IF method = "post" THEN "POST" ELSE method

\* ------------------------------------------------------------------ responses
StatusText(status) ==
  IF status = 200 THEN "OK" ELSE IF status = 201 THEN "Created" ELSE "Not Found"

Statuses == {200, 201, 404}
ContentTypes == {<<>>, <<"application/json">>, <<"application/json", "charset=utf-8">>,
                 <<"text/plain">>}
ResponseBodies == {"7", "{\"a\":1}", "hello"}

Responses ==
  [status : Statuses, contentType : ContentTypes, body : ResponseBodies]

\* ky throws HTTPError on a status outside 200..299.
\* A client that throws on no status (throwHttpErrors: false).
KyOk_Always(status) == TRUE

KyOk(status) == status >= 200 /\ status < 300

\* ------------------------------------------------------------------- registry
ManualTrigger == "manualTriggerExecutor"
HttpRequest == "httpRequestExecutor"
GoogleFormTrigger == "googleFormTriggerExecutor"

executorRegistry ==
  [type \in {"INITIAL", "MANUAL_TRIGGER", "HTTP_REQUEST", "GOOGLE_FORM_TRIGGER"} |->
     IF type \in {"INITIAL", "MANUAL_TRIGGER"} THEN ManualTrigger
     ELSE IF type = "HTTP_REQUEST" THEN HttpRequest
     ELSE GoogleFormTrigger]

getExecutor(type) ==
  IF type \in DOMAIN executorRegistry
  THEN [threw |-> FALSE, executor |-> executorRegistry[type]]
  ELSE [threw |-> TRUE, executor |-> ""]

\* ---------------------------------------------------------------------- state
VARIABLES
  pc,           \* where the function is: a position of executeWorkflow or of an executor
  event,        \* the triggering event's data
  workflow,     \* the stored workflow: its nodes and connections
  sortResult,   \* what topologicalSort returned or threw
  sortedNodes,  \* the result of the prepare-workflow step
  idx,          \* position of the for loop in sortedNodes
  context,      \* the context variable of executeWorkflow
  call,         \* the arguments of the executor that is running
  ret,          \* the value the running executor returns
  published,    \* the status messages published, in order
  steps,        \* the names given to step.run, in order
  trace,        \* executor invocations, returns and throws, in order
  requests,     \* the HTTP requests issued, in order
  response,     \* the response the last request resolved to
  error,        \* the error that ended the function
  result,       \* the value the function returned
  peer,         \* the other invocation of the function, while this one runs
  hook,         \* useNodeStatus of one node: the messages received and the status shown
  webhook,      \* the Stripe webhook route: the request, the reply, the executions sent
  editor,       \* the editor: its node list and its edge list
  rename,       \* useUpdateWorkflowName: the server's name, the query cache, the renames
  button        \* ExecutionWorkflowButton: the editor atom, the graph on screen, saves and executions

vars == <<pc, event, workflow, sortResult, sortedNodes, idx, context, call, ret,
          published, steps, trace, requests, response, error, result, peer,
          hook, webhook, editor, rename, button>>

\* The state of executeWorkflow and its executors.
runVars == <<pc, event, workflow, sortResult, sortedNodes, idx, context, call, ret,
             published, steps, trace, requests, response, error, result, peer>>

\* The state of the editor, of its hooks and of the webhook route.
clientVars == <<hook, webhook, editor, rename, button>>

NoResponse == [status |-> 0, contentType |-> <<>>, body |-> ""]
NoResult == [threw |-> FALSE, message |-> "", nodes |-> <<>>]
NoError == [kind |-> "", message |-> ""]
NoCall == [nodeId |-> 0, data |-> NoData, context |-> EmptyContext]
NoReturn == [returned |-> FALSE, workflowId |-> Missing, result |-> EmptyContext]
NoEvent == [workflowId |-> Missing, initialData |-> [present |-> FALSE, value |-> EmptyContext]]
NoWorkflow == [nodes |-> <<>>, connections |-> <<>>]

StoredWorkflowId == "w1"

\* The locals of an invocation of the function for event e, before its
\* first statement.
InitialLocals(run, e) ==
  [run |-> run, pc |-> "start", event |-> e, sortResult |-> NoResult, sortedNodes |-> <<>>,
   idx |-> 1, context |-> EmptyContext, call |-> NoCall, ret |-> EmptyContext,
   published |-> <<>>, steps |-> <<>>, trace |-> <<>>, requests |-> <<>>,
   response |-> NoResponse, error |-> NoError, result |-> NoReturn]

\* No other invocation.
NoPeer == InitialLocals(0, NoEvent)

\* useState<NodeStatus>("initial"), and no message received.
NoHook == [data |-> <<>>, status |-> "initial"]

NoRequest == [workflowId |-> Missing, eventType |-> Missing,
              body |-> [json |-> "none", type |-> Missing, id |-> Missing, created |-> Missing,
                        livemode |-> Missing, object |-> Missing]]
NoReply == [status |-> 0, success |-> FALSE]

\* No request has reached the webhook route.
NoWebhook == [request |-> NoRequest, reply |-> NoReply, sent |-> <<>>]

\* No editor is mounted.
NoEditor == [nodes |-> <<>>, edges |-> <<>>]

\* No workflow name is cached and no rename has been asked for.
NoRename == [server |-> "", one |-> "", many |-> "", refetching |-> FALSE, mutations |-> <<>>]

\* The button is not rendered.
NoButton == [editor |-> FALSE, screen |-> 0, stored |-> 0, clicks |-> 0, saves |-> <<>>,
             executions |-> <<>>]

\* Nothing but executeWorkflow is in use.
ClientsIdle == hook = NoHook /\ webhook = NoWebhook /\ editor = NoEditor /\ rename = NoRename /\ button = NoButton

\* No run of executeWorkflow is in progress.
RunIdle ==
  /\ pc = "idle"
  /\ event = NoEvent
  /\ workflow = NoWorkflow
  /\ sortResult = NoResult
  /\ sortedNodes = <<>>
  /\ idx = 1
  /\ context = EmptyContext
  /\ call = NoCall
  /\ ret = EmptyContext
  /\ published = <<>>
  /\ steps = <<>>
  /\ trace = <<>>
  /\ requests = <<>>
  /\ response = NoResponse
  /\ error = NoError
  /\ result = NoReturn
  /\ peer = NoPeer

\* ------------------------------------------------------------------ the sorter alone
SortInit ==
  /\ pc = "sort"
  /\ \E n \in 0..SortMaxNodes :
       \E length \in 0..SortMaxConns :
         \E connections \in ConnectionLists(n, length) :
           \E order \in Permutations(1..n) :
             workflow = [nodes |-> NodesInOrder(n, order), connections |-> connections]
  /\ sortResult = NoResult
  /\ event = NoEvent
  /\ sortedNodes = <<>>
  /\ idx = 1
  /\ context = EmptyContext
  /\ call = NoCall
  /\ ret = EmptyContext
  /\ published = <<>>
  /\ steps = <<>>
  /\ trace = <<>>
  /\ requests = <<>>
  /\ response = NoResponse
  /\ error = NoError
  /\ result = NoReturn
  /\ peer = NoPeer
  /\ ClientsIdle

SortCall ==
  /\ pc = "sort"
  /\ sortResult' = topologicalSort(workflow.nodes, workflow.connections)
  /\ pc' = "sorted"
  /\ UNCHANGED <<clientVars, peer, event, workflow, sortedNodes, idx, context, call, ret, published, steps,
                 trace, requests, response, error, result>>

SortNext == SortCall

SortSpec == SortInit /\ [][SortNext]_vars

\* ------------------------------------------------- claims about the sorter
\* The connections as a relation on ids, and the ids reachable over one or
\* more connections.
Edge(connections) == {<<c.fromNodeId, c.toNodeId>> : c \in SeqToSet(connections)}

Reachable(connections, from) ==
  LET E == Edge(connections)
      RECURSIVE grow(_)
      grow(S) == LET T == S \cup {e[2] : e \in {d \in E : d[1] \in S}}
                 IN IF T = S THEN S ELSE grow(T)
  IN grow({e[2] : e \in {d \in E : d[1] = from}})

Acyclic(connections) ==
  \A c \in SeqToSet(connections) : c.fromNodeId \notin Reachable(connections, c.fromNodeId)

Position(seq, id) == CHOOSE i \in 1..Len(seq) : seq[i].id = id

\* seq holds every node of nodes exactly once.
IsPermutation(seq, nodes) ==
  /\ Len(seq) = Len(nodes)
  /\ \A i \in 1..Len(nodes) : \E j \in 1..Len(seq) : seq[j] = nodes[i]
  /\ \A i, j \in 1..Len(seq) : seq[i].id = seq[j].id => i = j

RespectsConnections(seq, connections) ==
  \A c \in SeqToSet(connections) :
    /\ \E i \in 1..Len(seq) : seq[i].id = c.fromNodeId
    /\ \E i \in 1..Len(seq) : seq[i].id = c.toNodeId
    /\ Position(seq, c.fromNodeId) < Position(seq, c.toNodeId)

Disconnected(nodes, connections) ==
  {nodes[i].id : i \in 1..Len(nodes)}
    \ ({c.fromNodeId : c \in SeqToSet(connections)} \cup {c.toNodeId : c \in SeqToSet(connections)})

\* C1: for every node list with distinct ids and every acyclic connection
\* set over them, topologicalSort returns a sequence that holds every node
\* exactly once and in which the source of every connection comes before
\* its target.
C1_SortIsTopologicalOrder ==
  (pc = "sorted" /\ Acyclic(workflow.connections)) =>
    /\ ~sortResult.threw
    /\ IsPermutation(sortResult.nodes, workflow.nodes)
    /\ RespectsConnections(sortResult.nodes, workflow.connections)

\* C3: with a non-empty acyclic connection set and at least one node that no
\* connection references, the self-edges do not make the sort fail: it
\* returns normally and the unreferenced nodes are in the result.
C3_SelfEdgesDoNotFail ==
  (/\ pc = "sorted"
   /\ Len(workflow.connections) > 0
   /\ Acyclic(workflow.connections)
   /\ Disconnected(workflow.nodes, workflow.connections) # {}) =>
    /\ ~sortResult.threw
    /\ \A id \in Disconnected(workflow.nodes, workflow.connections) :
         \E i \in 1..Len(sortResult.nodes) : sortResult.nodes[i].id = id

\* C21: with an empty connection list topologicalSort returns the nodes in
\* exactly their input order, whatever that order is.
C21_NoConnectionsKeepsOrder ==
  (pc = "sorted" /\ workflow.connections = <<>>) =>
    /\ ~sortResult.threw
    /\ sortResult.nodes = workflow.nodes

\* Three nodes given in an order that is not that of their ids.
C21_Witness ==
  /\ pc = "sorted"
  /\ workflow.connections = <<>>
  /\ Len(workflow.nodes) = 3
  /\ workflow.nodes[1].id = 3
  /\ workflow.nodes[2].id = 1
  /\ sortResult.nodes = workflow.nodes

\* ----------------------------------------------------------- executeWorkflow
\* Throwing out of the function: nothing catches, the run ends.
Throw(kind, message) ==
  /\ pc' = "failed"
  /\ error' = [kind |-> kind, message |-> message]

\* An executor that catches its error and returns what it has.
ExecutorThrow_Swallow(kind, message) ==
  /\ pc' = "returned"
  /\ error' = [kind |-> kind, message |-> message]
  /\ trace' = Append(trace, [ev |-> "throw", nodeId |-> call.nodeId, context |-> call.context])

\* Throwing out of the running executor.
ExecutorThrow(kind, message) ==
  /\ Throw(kind, message)
  /\ trace' = Append(trace, [ev |-> "throw", nodeId |-> call.nodeId, context |-> call.context])

\* A step named after the kind of work only.
StepName_NoId(name, nodeId) == [name |-> name, nodeId |-> 0]

StepName(name, nodeId) == [name |-> name, nodeId |-> nodeId]

Status(channel, nodeId, status) ==
  [channel |-> channel, topic |-> "status", nodeId |-> nodeId, status |-> status]

\* const workflowId = event.data.workflowId; if (!workflowId) throw ...
CheckWorkflowId ==
  /\ pc = "start"
  /\ IF event.workflowId = Missing
     THEN Throw("NonRetriableError", "No workflowId provided in event data")
     ELSE pc' = "save-workflow" /\ UNCHANGED error
  /\ UNCHANGED <<clientVars, peer, event, workflow, sortResult, sortedNodes, idx, context, call, ret,
                 published, steps, trace, requests, response, result>>

\* await step.run("save-workflow", async () => {})
SaveWorkflow ==
  /\ pc = "save-workflow"
  /\ steps' = Append(steps, StepName("save-workflow", 0))
  /\ pc' = "prepare-workflow"
  /\ UNCHANGED <<clientVars, peer, event, workflow, sortResult, sortedNodes, idx, context, call, ret,
                 published, trace, requests, response, error, result>>

\* event.data.initialData || {}
InitialContext(e) == IF e.initialData.present THEN e.initialData.value ELSE EmptyContext

\* The prepare-workflow step: findUniqueOrThrow, then topologicalSort; on
\* its return the context is initialised.
PrepareWorkflow ==
  /\ pc = "prepare-workflow"
  /\ steps' = Append(steps, StepName("prepare-workflow", 0))
  /\ IF event.workflowId # StoredWorkflowId
     THEN /\ Throw("NotFoundError", "No Workflow found")
          /\ UNCHANGED <<sortResult, sortedNodes, context>>
     ELSE LET r == topologicalSort(workflow.nodes, workflow.connections)
          IN /\ sortResult' = r
             /\ IF r.threw
                THEN Throw("Error", r.message) /\ UNCHANGED <<sortedNodes, context>>
                ELSE /\ sortedNodes' = r.nodes
                     /\ context' = InitialContext(event)
                     /\ pc' = "loop"
                     /\ UNCHANGED error
  /\ UNCHANGED <<clientVars, peer, event, workflow, idx, call, ret, published, trace, requests, response, result>>

StartOf(executor) ==
  IF executor = ManualTrigger THEN "manual:loading"
  ELSE IF executor = GoogleFormTrigger THEN "google-form:loading"
  ELSE "http:validate"

\* One turn of the for loop up to the call of the executor.
ExecuteNode ==
  /\ pc = "loop"
  /\ idx <= Len(sortedNodes)
  /\ LET node == sortedNodes[idx]
         e == getExecutor(node.type)
     IN IF e.threw
        THEN /\ Throw("Error", "No executor found for node type")
             /\ UNCHANGED <<call, trace>>
        ELSE /\ call' = [nodeId |-> node.id, data |-> node.data, context |-> context]
             /\ trace' = Append(trace, [ev |-> "invoke", nodeId |-> node.id, context |-> context])
             /\ pc' = StartOf(e.executor)
             /\ UNCHANGED error
  /\ UNCHANGED <<clientVars, peer, event, workflow, sortResult, sortedNodes, idx, context, ret, published,
                 steps, requests, response, result>>

\* A loop that steps over the node after the one that ran.
AssignContext_SkipNext ==
  /\ pc = "returned"
  /\ context' = ret
  /\ idx' = idx + 2
  /\ pc' = "loop"
  /\ response' = NoResponse
  /\ UNCHANGED <<clientVars, peer, event, workflow, sortResult, sortedNodes, call, ret, published, steps,
                 trace, requests, error, result>>

\* A loop that awaits the executor and drops what it returned.
AssignContext_KeepContext ==
  /\ pc = "returned"
  /\ idx' = idx + 1
  /\ pc' = "loop"
  /\ response' = NoResponse
  /\ UNCHANGED <<clientVars, peer, event, workflow, sortResult, sortedNodes, context, call, ret, published,
                 steps, trace, requests, error, result>>

\* context = await executor(...): the executor has returned, its locals are gone.
AssignContext ==
  /\ pc = "returned"
  /\ context' = ret
  /\ idx' = idx + 1
  /\ pc' = "loop"
  /\ response' = NoResponse
  /\ UNCHANGED <<clientVars, peer, event, workflow, sortResult, sortedNodes, call, ret, published, steps,
                 trace, requests, error, result>>

\* return { workflowId, result: context }
ReturnResult ==
  /\ pc = "loop"
  /\ idx > Len(sortedNodes)
  /\ result' = [returned |-> TRUE, workflowId |-> event.workflowId, result |-> context]
  /\ pc' = "done"
  /\ UNCHANGED <<clientVars, peer, event, workflow, sortResult, sortedNodes, idx, context, call, ret,
                 published, steps, trace, requests, response, error>>

\* ------------------------------------------------ the pass-through executors
ExecutorReturn(value) ==
  /\ ret' = value
  /\ trace' = Append(trace, [ev |-> "return", nodeId |-> call.nodeId, context |-> value])
  /\ pc' = "returned"

ManualPublishLoading ==
  /\ pc = "manual:loading"
  /\ published' = Append(published, Status("manualTriggerChannel", call.nodeId, "loading"))
  /\ pc' = "manual:step"
  /\ UNCHANGED <<clientVars, peer, event, workflow, sortResult, sortedNodes, idx, context, call, ret, steps,
                 trace, requests, response, error, result>>

\* The step resolving to an empty object instead of the context.
ManualStepRun_Empty ==
  /\ pc = "manual:step"
  /\ steps' = Append(steps, StepName("manual-trigger", call.nodeId))
  /\ ret' = EmptyContext
  /\ pc' = "manual:success"
  /\ UNCHANGED <<clientVars, peer, event, workflow, sortResult, sortedNodes, idx, context, call, published,
                 trace, requests, response, error, result>>

ManualStepRun ==
  /\ pc = "manual:step"
  /\ steps' = Append(steps, StepName("manual-trigger", call.nodeId))
  /\ ret' = call.context
  /\ pc' = "manual:success"
  /\ UNCHANGED <<clientVars, peer, event, workflow, sortResult, sortedNodes, idx, context, call, published,
                 trace, requests, response, error, result>>

ManualPublishSuccess ==
  /\ pc = "manual:success"
  /\ published' = Append(published, Status("manualTriggerChannel", call.nodeId, "success"))
  /\ ExecutorReturn(ret)
  /\ UNCHANGED <<clientVars, peer, event, workflow, sortResult, sortedNodes, idx, context, call, steps,
                 requests, response, error, result>>

GoogleFormPublishLoading ==
  /\ pc = "google-form:loading"
  /\ published' = Append(published, Status("googleFormTriggerChannel", call.nodeId, "loading"))
  /\ pc' = "google-form:step"
  /\ UNCHANGED <<clientVars, peer, event, workflow, sortResult, sortedNodes, idx, context, call, ret, steps,
                 trace, requests, response, error, result>>

GoogleFormStepRun ==
  /\ pc = "google-form:step"
  /\ steps' = Append(steps, StepName("google-form-trigger", call.nodeId))
  /\ ret' = call.context
  /\ pc' = "google-form:success"
  /\ UNCHANGED <<clientVars, peer, event, workflow, sortResult, sortedNodes, idx, context, call, published,
                 trace, requests, response, error, result>>

GoogleFormPublishSuccess ==
  /\ pc = "google-form:success"
  /\ published' = Append(published, Status("googleFormTriggerChannel", call.nodeId, "success"))
  /\ ExecutorReturn(ret)
  /\ UNCHANGED <<clientVars, peer, event, workflow, sortResult, sortedNodes, idx, context, call, steps,
                 requests, response, error, result>>

\* --------------------------------------------------------- httpRequestExecutor
\* The checks in the order method, variableName, endpoint.
HttpValidate_MethodFirst ==
  /\ pc = "http:validate"
  /\ IF call.data.method = Missing
     THEN ExecutorThrow("NonRetriableError", "HTTP Request node: No method configured")
     ELSE IF call.data.variableName = Missing
     THEN ExecutorThrow("NonRetriableError", "HTTP Request node: No variable name configured")
     ELSE IF call.data.endpoint = <<>>
     THEN ExecutorThrow("NonRetriableError", "HTTP Request node: No endpoint configured")
     ELSE pc' = "http:step" /\ UNCHANGED <<error, trace>>
  /\ UNCHANGED <<clientVars, peer, event, workflow, sortResult, sortedNodes, idx, context, call, ret,
                 published, steps, requests, response, result>>

\* The checks without the one of the method.
HttpValidate_NoMethodCheck ==
  /\ pc = "http:validate"
  /\ IF call.data.endpoint = <<>>
     THEN ExecutorThrow("NonRetriableError", "HTTP Request node: No endpoint configured")
     ELSE IF call.data.variableName = Missing
     THEN ExecutorThrow("NonRetriableError", "HTTP Request node: No variable name configured")
     ELSE pc' = "http:step" /\ UNCHANGED <<error, trace>>
  /\ UNCHANGED <<clientVars, peer, event, workflow, sortResult, sortedNodes, idx, context, call, ret,
                 published, steps, requests, response, result>>

\* The three configuration checks before the step.
HttpValidate ==
  /\ pc = "http:validate"
  /\ IF call.data.endpoint = <<>>
     THEN ExecutorThrow("NonRetriableError", "HTTP Request node: No endpoint configured")
     ELSE IF call.data.variableName = Missing
     THEN ExecutorThrow("NonRetriableError", "HTTP Request node: No variable name configured")
     ELSE IF call.data.method = Missing
     THEN ExecutorThrow("NonRetriableError", "HTTP Request node: No method configured")
     ELSE pc' = "http:step" /\ UNCHANGED <<error, trace>>
  /\ UNCHANGED <<clientVars, peer, event, workflow, sortResult, sortedNodes, idx, context, call, ret,
                 published, steps, requests, response, result>>

\* Every method treated as one with a body.
BodyMethods_All == {"POST", "PUT", "PATCH", "GET", "DELETE"}

\* The methods with a body, PATCH left out.
BodyMethods_NoPatch == {"POST", "PUT"}

BodyMethods == {"POST", "PUT", "PATCH"}

\* The request the step builds: { method } and, for a body method, the
\* resolved body with the JSON content type.
KyRequest(endpoint, method, hasBody, body) ==
  [endpoint |-> endpoint, method |-> method, hasBody |-> hasBody, body |-> body,
   contentType |-> IF hasBody THEN "application/json" ELSE Missing]

\* step.run(`http-request-${nodeId}`): the templates are resolved and the
\* request is issued.
HttpStepRun ==
  /\ pc = "http:step"
  /\ steps' = Append(steps, StepName("http-request", call.nodeId))
  /\ LET endpoint == HandlebarsRender(call.data.endpoint, call.context)
         method == call.data.method
         hasBody == ToUpperCase(method) \in BodyMethods
         resolved == HandlebarsRender(IF call.data.body = <<>> THEN <<Lit("{}")>> ELSE call.data.body,
                                      call.context)
     IN IF endpoint.threw \/ endpoint.out = <<>>
        THEN /\ ExecutorThrow("NonRetriableError", "HTTP Request node: Endpoint template error")
             /\ UNCHANGED requests
        ELSE IF hasBody /\ resolved.threw
        THEN ExecutorThrow("Error", "Parse error") /\ UNCHANGED requests
        ELSE IF hasBody /\ ~IsJsonBody(resolved.out)
        THEN /\ ExecutorThrow("NonRetriableError",
                              "HTTP Request node: Invalid JSON in request body after template resolution")
             /\ UNCHANGED requests
        ELSE /\ requests' = Append(requests,
                                   KyRequest(endpoint.out, method, hasBody,
                                             IF hasBody THEN resolved.out ELSE <<>>))
             /\ pc' = "http:response"
             /\ UNCHANGED <<error, trace>>
  /\ UNCHANGED <<clientVars, peer, event, workflow, sortResult, sortedNodes, idx, context, call, ret,
                 published, response, result>>

\* The value written under variableName.
responsePayload(res, responseData) ==
  [httpResponse |-> [status |-> res.status,
                     statusText |-> StatusText(res.status),
                     data |-> responseData]]

\* The request fails, or ky resolves to one of the given responses, the
\* response is read and the step's result is returned by the executor.
HttpResponse(responses) ==
  /\ pc = "http:response"
  /\ \/ ExecutorThrow("TypeError", "fetch failed") /\ UNCHANGED <<ret, response>>
     \/ \E r \in responses :
          /\ response' = r
          /\ IF ~KyOk(r.status)
             THEN ExecutorThrow("HTTPError", "Request failed") /\ UNCHANGED ret
             ELSE LET contentType == r.contentType
                      json == ParseJson(r.body)
                  IN IF IncludesJson(contentType) /\ json.threw
                     THEN ExecutorThrow("SyntaxError", "Unexpected token") /\ UNCHANGED ret
                     ELSE LET responseData == IF IncludesJson(contentType) THEN json.value
                                              ELSE Str(r.body)
                          IN /\ ExecutorReturn(Spread(call.context, call.data.variableName,
                                                      responsePayload(r, responseData)))
                             /\ UNCHANGED error
  /\ UNCHANGED <<clientVars, peer, event, workflow, sortResult, sortedNodes, idx, context, call, published,
                 steps, requests, result>>

\* -------------------------------------------------------------- a workflow run
\* The executed workflows connect different nodes; connections of a node to
\* itself are among the inputs of the sorter alone.
ItemsUrl == "https://api.com/items/"

\* Configurations of the HTTP request nodes of an executed workflow.
GetItem == [endpoint |-> <<Lit(ItemsUrl), Var("id")>>, variableName |-> "r",
            method |-> "GET", body |-> <<>>]
PostItem == [endpoint |-> <<Lit(ItemsUrl)>>, variableName |-> "id",
             method |-> "POST", body |-> <<Lit("{\"id\":"), Var("id"), Lit("}")>>]
NoEndpoint == [endpoint |-> <<>>, variableName |-> "r", method |-> "GET", body |-> <<>>]

NodeKinds ==
  [type : NodeTypes \ {"HTTP_REQUEST"}, data : {NoData}]
    \cup [type : {"HTTP_REQUEST"}, data : {GetItem, PostItem, NoEndpoint}]

\* The workflow of n nodes of the given kinds with the given connections.
Workflow(n, kinds, connections) ==
  [nodes |-> [i \in 1..n |-> [id |-> i, type |-> kinds[i].type, data |-> kinds[i].data]],
   connections |-> connections]

\* The responses a request of an executed workflow resolves to.
RunResponses ==
  [status : {200, 404}, contentType : {<<>>, <<"application/json">>}, body : {"7"}]

RunEvents ==
  [workflowId : {Missing, StoredWorkflowId, "w2"},
   initialData : {[present |-> FALSE, value |-> EmptyContext],
                  [present |-> TRUE, value |-> [k \in {"id"} |-> Num("7")]]}]

Init ==
  /\ pc = "start"
  /\ event \in RunEvents
  /\ \E n \in 0..RunMaxNodes :
       \E length \in 0..RunMaxConns :
         \E connections \in ConnectionLists(n, length) :
           \E kinds \in [1..n -> NodeKinds] :
             /\ NoSelfConnection(connections)
             /\ workflow = Workflow(n, kinds, connections)
  /\ sortResult = NoResult
  /\ sortedNodes = <<>>
  /\ idx = 1
  /\ context = EmptyContext
  /\ call = NoCall
  /\ ret = EmptyContext
  /\ published = <<>>
  /\ steps = <<>>
  /\ trace = <<>>
  /\ requests = <<>>
  /\ response = NoResponse
  /\ error = NoError
  /\ result = NoReturn
  /\ peer = NoPeer
  /\ ClientsIdle

Next ==
  \/ CheckWorkflowId
  \/ SaveWorkflow
  \/ PrepareWorkflow
  \/ ExecuteNode
  \/ AssignContext
  \/ ReturnResult
  \/ ManualPublishLoading
  \/ ManualStepRun
  \/ ManualPublishSuccess
  \/ GoogleFormPublishLoading
  \/ GoogleFormStepRun
  \/ GoogleFormPublishSuccess
  \/ HttpValidate
  \/ HttpStepRun
  \/ HttpResponse(RunResponses)

Spec == Init /\ [][Next]_vars

\* ------------------------------------------------- the HTTP executor alone
HttpEndpoints == {<<>>, <<Lit(ItemsUrl), Var("id")>>, <<Var("id")>>, <<BadPart>>}
HttpVariableNames == {Missing, "r", "x"}
HttpMethods == {Missing, "GET", "POST", "PUT", "DELETE", "PATCH", "post"}
HttpBodies == {<<>>, <<Lit("{\"id\":"), Var("id"), Lit("}")>>, <<Lit("not json")>>, <<BadPart>>}

HttpDatas ==
  [endpoint : HttpEndpoints, variableName : HttpVariableNames, method : HttpMethods,
   body : HttpBodies]

HttpContexts ==
  {EmptyContext,
   [k \in {"id"} |-> Num("7")],
   [k \in {"id"} |-> Str("abc")],
   [k \in {"x"} |-> Str("old")],
   [k \in {"id", "x"} |-> IF k = "id" THEN Num("7") ELSE Obj("{\"a\":1}")]}

\* The executor has just been called with some configuration and context.
HttpInit ==
  /\ pc = "http:validate"
  /\ call \in [nodeId : {1}, data : HttpDatas, context : HttpContexts]
  /\ trace = <<[ev |-> "invoke", nodeId |-> call.nodeId, context |-> call.context]>>
  /\ event = NoEvent
  /\ workflow = NoWorkflow
  /\ sortResult = NoResult
  /\ sortedNodes = <<>>
  /\ idx = 1
  /\ context = call.context
  /\ ret = EmptyContext
  /\ published = <<>>
  /\ steps = <<>>
  /\ requests = <<>>
  /\ response = NoResponse
  /\ error = NoError
  /\ result = NoReturn
  /\ peer = NoPeer
  /\ ClientsIdle

HttpNext ==
  \/ HttpValidate
  \/ HttpStepRun
  \/ HttpResponse(Responses)

HttpSpec == HttpInit /\ [][HttpNext]_vars

\* ------------------------------------------------ two runs of one workflow
\* The locals of the invocation that is running.
Locals(run) ==
  [run |-> run, pc |-> pc, event |-> event, sortResult |-> sortResult,
   sortedNodes |-> sortedNodes, idx |-> idx, context |-> context, call |-> call,
   ret |-> ret, published |-> published, steps |-> steps, trace |-> trace,
   requests |-> requests, response |-> response, error |-> error, result |-> result]

\* The context kept in a variable of the module, which the invocations share.
Switch_SharedContext ==
  /\ peer.run # 0
  /\ peer' = Locals(3 - peer.run)
  /\ pc' = peer.pc
  /\ event' = peer.event
  /\ sortResult' = peer.sortResult
  /\ sortedNodes' = peer.sortedNodes
  /\ idx' = peer.idx
  /\ call' = peer.call
  /\ ret' = peer.ret
  /\ published' = peer.published
  /\ steps' = peer.steps
  /\ trace' = peer.trace
  /\ requests' = peer.requests
  /\ response' = peer.response
  /\ error' = peer.error
  /\ result' = peer.result
  /\ UNCHANGED <<clientVars, workflow, context>>

\* The running invocation is suspended at an await and the other one goes
\* on: each has its own event, step and publish parameters and its own
\* locals, the context among them; the stored workflow is the one both read.
Switch ==
  /\ peer.run # 0
  /\ peer' = Locals(3 - peer.run)
  /\ pc' = peer.pc
  /\ event' = peer.event
  /\ sortResult' = peer.sortResult
  /\ sortedNodes' = peer.sortedNodes
  /\ idx' = peer.idx
  /\ context' = peer.context
  /\ call' = peer.call
  /\ ret' = peer.ret
  /\ published' = peer.published
  /\ steps' = peer.steps
  /\ trace' = peer.trace
  /\ requests' = peer.requests
  /\ response' = peer.response
  /\ error' = peer.error
  /\ result' = peer.result
  /\ UNCHANGED <<clientVars, workflow>>

\* The node kinds of a workflow that two runs execute.
ConcKinds ==
  [type : {"INITIAL", "GOOGLE_FORM_TRIGGER"}, data : {NoData}]
    \cup [type : {"HTTP_REQUEST"}, data : {GetItem}]

\* The events of the two runs: the same workflow id, each its own payload.
ConcEvents ==
  [workflowId : {StoredWorkflowId},
   initialData : {[present |-> FALSE, value |-> EmptyContext],
                  [present |-> TRUE, value |-> [k \in {"id"} |-> Num("7")]]}]

ConcInit ==
  /\ pc = "start"
  /\ event \in ConcEvents
  /\ \E n \in 1..ConcMaxNodes :
       \E kinds \in [1..n -> ConcKinds] :
         workflow = Workflow(n, kinds, <<>>)
  /\ sortResult = NoResult
  /\ sortedNodes = <<>>
  /\ idx = 1
  /\ context = EmptyContext
  /\ call = NoCall
  /\ ret = EmptyContext
  /\ published = <<>>
  /\ steps = <<>>
  /\ trace = <<>>
  /\ requests = <<>>
  /\ response = NoResponse
  /\ error = NoError
  /\ result = NoReturn
  /\ \E e \in ConcEvents : peer = InitialLocals(2, e)
  /\ ClientsIdle

ConcNext ==
  \/ CheckWorkflowId
  \/ SaveWorkflow
  \/ PrepareWorkflow
  \/ ExecuteNode
  \/ AssignContext
  \/ ReturnResult
  \/ ManualPublishLoading
  \/ ManualStepRun
  \/ ManualPublishSuccess
  \/ GoogleFormPublishLoading
  \/ GoogleFormStepRun
  \/ GoogleFormPublishSuccess
  \/ HttpValidate
  \/ HttpStepRun
  \/ HttpResponse(RunResponses)
  \/ Switch

ConcSpec == ConcInit /\ [][ConcNext]_vars

\* ------------------------------------------------------ claims about a run
\* Two different nodes each reachable from the other: a cycle that is not a
\* self-loop.
HasTrueCycle(connections) ==
  \E c \in SeqToSet(connections) :
    /\ c.fromNodeId # c.toNodeId
    /\ c.fromNodeId \in Reachable(connections, c.toNodeId)

BeforePrepare == pc \in {"start", "save-workflow", "prepare-workflow"}

\* C2: when the connections of the workflow contain a true cycle,
\* topologicalSort fails with the cycle error, and the run invokes no node
\* executor and publishes no node status.
C2_CycleAbortsRun ==
  HasTrueCycle(workflow.connections) =>
    /\ trace = <<>>
    /\ published = <<>>
    /\ BeforePrepare \/ pc = "failed"
    /\ (~BeforePrepare /\ event.workflowId = StoredWorkflowId) =>
         /\ sortResult.threw
         /\ sortResult.message = CycleDetected
         /\ error.message = CycleDetected

C2_Witness ==
  /\ HasTrueCycle(workflow.connections)
  /\ pc = "failed"
  /\ sortResult.threw
  /\ error.message = CycleDetected

\* The executor events of the run pair up: the event at an odd place 2k-1 is
\* the invocation of the k-th sorted node, the one after it that executor's
\* return or throw.
Sequential ==
  \A i \in 1..Len(trace) :
    IF i % 2 = 1
    THEN /\ trace[i].ev = "invoke"
         /\ (i + 1) \div 2 <= Len(sortedNodes)
         /\ trace[i].nodeId = sortedNodes[(i + 1) \div 2].id
    ELSE /\ trace[i].ev \in {"return", "throw"}
         /\ trace[i].nodeId = trace[i - 1].nodeId

\* C4: the executors are invoked one at a time in the sorted order, the
\* next one only after the one before it has returned, and a run that
\* completes has invoked the executor of every sorted node exactly once.
C4_SequentialInSortedOrder ==
  /\ Sequential
  /\ \A i \in 1..Len(trace) : (trace[i].ev = "invoke" /\ i > 1) => trace[i - 1].ev = "return"
  /\ pc = "done" =>
       /\ Len(trace) = 2 * Len(sortedNodes)
       /\ \A k \in 1..Len(sortedNodes) :
            /\ trace[2 * k - 1] = [ev |-> "invoke", nodeId |-> sortedNodes[k].id,
                                   context |-> trace[2 * k - 1].context]
            /\ trace[2 * k].ev = "return"

\* Two nodes with no connection between them have both run, one after the other.
C4_Witness ==
  /\ pc = "done"
  /\ workflow.connections = <<>>
  /\ Len(sortedNodes) = 2
  /\ Len(trace) = 4

IsPrefix(s, t) == Len(s) <= Len(t) /\ \A i \in 1..Len(s) : s[i] = t[i]

\* The nodes of sortedNodes after the one that threw.
LaterNodes(nodeId) ==
  {sortedNodes[j].id : j \in {k \in 1..Len(sortedNodes) :
                                 \E m \in 1..(k - 1) : sortedNodes[m].id = nodeId}}

\* C6: when the executor at a sorted position throws, the run halts there:
\* no later executor is invoked, no status is published for a later node,
\* no result is returned, and what the nodes before did (their requests,
\* statuses and steps) stays as it is.
C6_HaltsAtFirstFailure ==
  /\ [](\A i \in 1..Len(trace) :
          trace[i].ev = "throw" =>
            /\ i = Len(trace)
            /\ pc = "failed"
            /\ ~result.returned
            /\ \A j \in 1..(i - 1) : trace[j].ev # "throw"
            /\ \A m \in 1..Len(published) : published[m].nodeId \notin LaterNodes(trace[i].nodeId)
            /\ \A m \in 1..Len(steps) : steps[m].nodeId \notin LaterNodes(trace[i].nodeId))
  /\ [][/\ pc # "failed"
        /\ IsPrefix(requests, requests')
        /\ IsPrefix(published, published')
        /\ IsPrefix(steps, steps')
        /\ IsPrefix(trace, trace')]_vars

\* The first of two nodes issued its request and then failed; the second
\* never ran.
C6_Witness ==
  /\ pc = "failed"
  /\ Len(sortedNodes) = 2
  /\ Len(trace) = 2
  /\ trace[2].ev = "throw"
  /\ Len(requests) = 1

StatusesOf(log) == [i \in 1..Len(log) |-> <<log[i].nodeId, log[i].status>>]

LoadingThenSuccess(nodes) ==
  [i \in 1..(2 * Len(nodes)) |->
     <<nodes[(i + 1) \div 2].id, IF i % 2 = 1 THEN "loading" ELSE "success">>]

\* C7: every node executor publishes 'loading' for its node before its work
\* and 'success' after it, so a completed run has published, node by node
\* in sorted order, loading then success.
C7_LoadingThenSuccess ==
  pc = "done" => StatusesOf(published) = LoadingThenSuccess(sortedNodes)

\* C8: when a node executor fails, an 'error' status for that node is
\* published before the error reaches the orchestrator, and the error is
\* rethrown.
C8_ErrorStatusBeforeThrow ==
  (trace # <<>> /\ trace[Len(trace)].ev = "throw") =>
    /\ pc = "failed"
    /\ error # NoError
    /\ published # <<>>
    /\ published[Len(published)].nodeId = trace[Len(trace)].nodeId
    /\ published[Len(published)].status = "error"

\* ------------------------------------------- claims about the HTTP executor
Succeeded == pc = "returned" /\ trace[Len(trace)].ev = "return" /\ requests # <<>>

\* C9: on a successful request the returned context has every key of the
\* incoming context with its value, except variableName, which is added or
\* overwritten with the response payload; the incoming context is as it was.
C9_ContextMerged ==
  Succeeded =>
    LET incoming == trace[1].context
        key == call.data.variableName
    IN /\ DOMAIN ret = DOMAIN incoming \cup {key}
       /\ \A k \in DOMAIN incoming \ {key} : ret[k] = incoming[k]
       /\ DOMAIN ret[key] = {"httpResponse"}
       /\ ret[key].httpResponse.status = response.status
       /\ call.context = incoming

\* The variable name was already a key of the context, beside another key.
C9_Witness ==
  /\ Succeeded
  /\ call.data.variableName \in DOMAIN trace[1].context
  /\ DOMAIN trace[1].context \ {call.data.variableName} # {}
  /\ ret[call.data.variableName] # trace[1].context[call.data.variableName]

\* C10 as stated: the value under variableName has both fields, data and
\* httpResponse {status, statusText, data}.
C10_DataAndHttpResponse ==
  Succeeded =>
    LET v == ret[call.data.variableName]
    IN /\ {"data", "httpResponse"} \subseteq DOMAIN v
       /\ DOMAIN v.httpResponse = {"status", "statusText", "data"}

\* C10 amended: the value under variableName is a record with the one field
\* httpResponse {status, statusText, data}; data is the JSON-parsed body
\* when the response content type includes application/json and the raw
\* text otherwise.
C10_HttpResponseOnly ==
  Succeeded =>
    LET v == ret[call.data.variableName]
    IN /\ DOMAIN v = {"httpResponse"}
       /\ DOMAIN v.httpResponse = {"status", "statusText", "data"}
       /\ v.httpResponse.status = response.status
       /\ v.httpResponse.statusText = StatusText(response.status)
       /\ IF \E i \in 1..Len(response.contentType) : response.contentType[i] = "application/json"
          THEN /\ v.httpResponse.data.t \in {"num", "obj"}
               /\ v.httpResponse.data.s = response.body
          ELSE v.httpResponse.data = [t |-> "str", s |-> response.body]

\* A JSON content type with a parameter, and a body that parses to a number.
C10_Witness ==
  /\ Succeeded
  /\ response.contentType = <<"application/json", "charset=utf-8">>
  /\ response.body = "7"
  /\ ret[call.data.variableName].httpResponse.data = [t |-> "num", s |-> "7"]

Validated == pc # "http:validate"

NoReturnIn(log) == \A i \in 1..Len(log) : log[i].ev # "return"

\* C11: the configuration is checked in the order endpoint, variableName,
\* method: the error raised is the one of the first missing field in that
\* order, and it is a NonRetriableError.
C11_ValidationOrder ==
  Validated =>
    LET d == call.data
        expected == IF d.endpoint = <<>> THEN "HTTP Request node: No endpoint configured"
                    ELSE IF d.variableName = Missing
                    THEN "HTTP Request node: No variable name configured"
                    ELSE "HTTP Request node: No method configured"
    IN (d.endpoint = <<>> \/ d.variableName = Missing \/ d.method = Missing) =>
         /\ pc = "failed"
         /\ error = [kind |-> "NonRetriableError", message |-> expected]

\* All three fields are missing and the error is the one of the endpoint.
C11_Witness ==
  /\ pc = "failed"
  /\ call.data.endpoint = <<>>
  /\ call.data.variableName = Missing
  /\ call.data.method = Missing
  /\ error.message = "HTTP Request node: No endpoint configured"

\* C12: when endpoint, variableName or method is missing the executor fails
\* before its step is entered: no request is issued, no step is started and
\* no context is returned.
C12_FailsBeforeStep ==
  (/\ Validated
   /\ call.data.endpoint = <<>> \/ call.data.variableName = Missing \/ call.data.method = Missing) =>
    /\ pc = "failed"
    /\ requests = <<>>
    /\ steps = <<>>
    /\ NoReturnIn(trace)
    /\ ret = EmptyContext

\* Only the method is missing.
C12_Witness ==
  /\ pc = "failed"
  /\ call.data.endpoint # <<>>
  /\ call.data.variableName # Missing
  /\ call.data.method = Missing
  /\ steps = <<>>
  /\ requests = <<>>

AfterStep == pc \notin {"http:validate", "http:step"}

ResolvedEndpoint == HandlebarsRender(call.data.endpoint, call.context)

ResolvedBody ==
  HandlebarsRender(IF call.data.body = <<>> THEN <<Lit("{}")>> ELSE call.data.body, call.context)

EndpointFails == ResolvedEndpoint.threw \/ ResolvedEndpoint.out = <<>>

\* C13: for method POST, PUT or PATCH, when the body template resolves to
\* text that is not valid JSON, the executor fails with a NonRetriableError
\* (the invalid-JSON one when the endpoint resolved) and issues no request.
C13_InvalidJsonBody ==
  (/\ AfterStep
   /\ call.data.method \in {"POST", "PUT", "PATCH"}
   /\ ~ResolvedBody.threw
   /\ ~IsJsonBody(ResolvedBody.out)) =>
    /\ pc = "failed"
    /\ error.kind = "NonRetriableError"
    /\ requests = <<>>
    /\ NoReturnIn(trace)
    /\ (call.data.variableName # Missing /\ ~EndpointFails) =>
         error.message = "HTTP Request node: Invalid JSON in request body after template resolution"

\* A PATCH whose body template renders, with a value of the context put in,
\* to text that is not JSON.
C13_Witness ==
  /\ pc = "failed"
  /\ steps # <<>>
  /\ call.data.method = "PATCH"
  /\ \E i \in 1..Len(call.data.body) : call.data.body[i] = Var("id")
  /\ ~ResolvedBody.threw
  /\ ~IsJsonBody(ResolvedBody.out)
  /\ error.message = "HTTP Request node: Invalid JSON in request body after template resolution"

ValidConfig ==
  call.data.endpoint # <<>> /\ call.data.variableName # Missing /\ call.data.method # Missing

BodyTemplateFails == ToUpperCase(call.data.method) \in BodyMethods /\ ResolvedBody.threw

\* C14: a template failure is non-retriable for both templated fields: when
\* the endpoint template fails (or resolves to an empty value) and when the
\* body template fails, the executor fails with a NonRetriableError and
\* issues no request.
C14_TemplateFailureNonRetriable ==
  (AfterStep /\ ValidConfig /\ (EndpointFails \/ BodyTemplateFails)) =>
    /\ pc = "failed"
    /\ error.kind = "NonRetriableError"
    /\ requests = <<>>

RequestFailed ==
  /\ pc \notin {"http:validate", "http:step", "http:response"}
  /\ requests # <<>>
  /\ response = NoResponse \/ ~(response.status >= 200 /\ response.status < 300)

\* C15: when the request itself fails (no response, or a response with a
\* status outside 2xx) the executor fails with the client's own error, never
\* a NonRetriableError, and returns no context: nothing is written under
\* variableName.
C15_RequestFailureIsRetriable ==
  RequestFailed =>
    /\ pc = "failed"
    /\ error.kind \in {"TypeError", "HTTPError"}
    /\ error.kind # "NonRetriableError"
    /\ NoReturnIn(trace)
    /\ ret = EmptyContext

\* A 404 answer to an issued request.
C15_Witness ==
  /\ pc = "failed"
  /\ Len(requests) = 1
  /\ response # NoResponse
  /\ response.status = 404
  /\ error.kind = "HTTPError"

\* C16: a cycle found by the prepare-workflow step aborts the run with a
\* NonRetriableError.
C16_CycleIsNonRetriable ==
  (/\ pc = "failed"
   /\ HasTrueCycle(workflow.connections)
   /\ sortResult.threw
   /\ error.message = CycleDetected) =>
    error.kind = "NonRetriableError"

\* C17: when the type of a node has no registered executor the run fails
\* with a NonRetriableError.
C17_UnknownTypeIsNonRetriable ==
  (/\ pc = "failed"
   /\ idx <= Len(sortedNodes)
   /\ getExecutor(sortedNodes[idx].type).threw) =>
    /\ error.message = "No executor found for node type"
    /\ error.kind = "NonRetriableError"

\* C18: the run fails with a NonRetriableError both when the event carries
\* no workflowId and when no workflow with that id is stored, and in both
\* cases no executor is invoked.
C18_MissingOrUnknownWorkflow ==
  (pc = "failed" /\ event.workflowId # StoredWorkflowId) =>
    /\ error.kind = "NonRetriableError"
    /\ trace = <<>>

TypeOf(nodeId) ==
  LET node == CHOOSE node \in SeqToSet(workflow.nodes) : node.id = nodeId IN node.type

PassThroughTypes == {"INITIAL", "MANUAL_TRIGGER", "GOOGLE_FORM_TRIGGER"}

PassThroughReturns ==
  {i \in 1..Len(trace) : trace[i].ev = "return" /\ TypeOf(trace[i].nodeId) \in PassThroughTypes}

\* C20: the executors of INITIAL, MANUAL_TRIGGER and GOOGLE_FORM_TRIGGER
\* nodes return the context they received: same keys, same values.
C20_PassThroughUnchanged ==
  \A i \in PassThroughReturns :
    /\ i > 1
    /\ trace[i - 1].ev = "invoke"
    /\ trace[i - 1].nodeId = trace[i].nodeId
    /\ DOMAIN trace[i].context = DOMAIN trace[i - 1].context
    /\ trace[i].context = trace[i - 1].context

\* A manual-trigger node and a google-form node have each returned a
\* context that is not empty.
C20_Witness ==
  /\ \E i \in PassThroughReturns :
       TypeOf(trace[i].nodeId) = "MANUAL_TRIGGER" /\ trace[i].context # EmptyContext
  /\ \E i \in PassThroughReturns :
       TypeOf(trace[i].nodeId) = "GOOGLE_FORM_TRIGGER" /\ trace[i].context # EmptyContext

\* ------------------------------------------------ claims about two runs
NodeOf(nodeId) == CHOOSE node \in SeqToSet(workflow.nodes) : node.id = nodeId

AnsweredResponses ==
  {r \in RunResponses : KyOk(r.status) /\ ~(IncludesJson(r.contentType) /\ ParseJson(r.body).threw)}

\* The contexts the executor of the node returns when it runs alone on ctx,
\* one for each response that can answer its request.
SoloStep(node, ctx) ==
  IF node.type \in PassThroughTypes
  THEN {ctx}
  ELSE {Spread(ctx, node.data.variableName,
               responsePayload(r, IF IncludesJson(r.contentType) THEN ParseJson(r.body).value
                                  ELSE Str(r.body))) : r \in AnsweredResponses}

LastContext(r) ==
  IF r.trace = <<>> THEN InitialContext(r.event) ELSE r.trace[Len(r.trace)].context

\* The run folds its own payload: the first executor gets the payload of the
\* run's event, each later one what the one before it in this run returned,
\* each return is what that executor returns alone, and the context and the
\* result of the run are the last of these.
FoldsOwnContext(r) ==
  /\ \A i \in 1..Len(r.trace) :
       /\ r.trace[i].ev = "invoke" =>
            r.trace[i].context = IF i = 1 THEN InitialContext(r.event)
                                 ELSE r.trace[i - 1].context
       /\ r.trace[i].ev = "return" =>
            /\ i > 1
            /\ r.trace[i].context \in SoloStep(NodeOf(r.trace[i].nodeId), r.trace[i - 1].context)
  /\ r.pc = "loop" => r.context = LastContext(r)
  /\ r.pc = "returned" /\ r.response # NoResponse =>
       r.ret = Spread(r.call.context, r.call.data.variableName,
                      responsePayload(r.response,
                                      IF IncludesJson(r.response.contentType)
                                      THEN ParseJson(r.response.body).value
                                      ELSE Str(r.response.body)))
  /\ r.result.returned => r.result.result = LastContext(r)

\* C19: two runs of the same workflow, interleaved in any order, each fold
\* their own context: what a run passes to its executors, holds as context
\* and returns as result is what it computes alone from its own payload and
\* the responses to its own requests, whatever the other run does.
C19_RunsAreIsolated ==
  /\ FoldsOwnContext(Locals(3 - peer.run))
  /\ FoldsOwnContext(peer)

\* Both runs have returned, from the same payload, results that differ by
\* the responses each received.
C19_Witness ==
  /\ result.returned
  /\ peer.result.returned
  /\ event = peer.event
  /\ Len(requests) > 0
  /\ Len(peer.requests) > 0
  /\ result.result # peer.result.result

\* ------------------------------------------------ further claims about a run
NodeStepNames == {"manual-trigger", "google-form-trigger", "http-request"}

\* C22: within one run the names given to step.run are pairwise distinct:
\* save-workflow, prepare-workflow, then one step per node, named after the
\* node's id, so no two nodes of the workflow share a step name.
C22_StepNamesDistinct ==
  /\ Distinct(steps)
  /\ \A i \in 1..Len(steps) :
       IF i = 1 THEN steps[i] = StepName("save-workflow", 0)
       ELSE IF i = 2 THEN steps[i] = StepName("prepare-workflow", 0)
       ELSE /\ steps[i].name \in NodeStepNames
            /\ \E k \in 1..Len(sortedNodes) : sortedNodes[k].id = steps[i].nodeId
            /\ \A j \in 3..Len(steps) : steps[j].nodeId = steps[i].nodeId => j = i

\* A finished run of two nodes of the same type.
C22_Witness ==
  /\ pc = "done"
  /\ Len(steps) = 4
  /\ steps[3].name = steps[4].name
  /\ workflow.nodes[1].type = workflow.nodes[2].type

\* ------------------------------------------------------------- useNodeStatus
\* The options of the hook: the node of a manual trigger.
HookNodeId == 1
HookChannel == "manualTriggerChannel"
HookTopic == "status"

\* A filter that does not look at the node id.
Matches_AnyNode(msg) ==
  /\ msg.kind = "data"
  /\ msg.channel = HookChannel
  /\ msg.topic = HookTopic

\* The predicate of data.filter(...)
Matches(msg) ==
  /\ msg.kind = "data"
  /\ msg.channel = HookChannel
  /\ msg.topic = HookTopic
  /\ msg.nodeId = HookNodeId

Filter(data) ==
  LET RECURSIVE from(_, _)
      from(i, res) == IF i > Len(data) THEN res
                      ELSE from(i + 1, IF Matches(data[i]) THEN Append(res, data[i]) ELSE res)
  IN from(1, <<>>)

\* new Date(b.createdAt).getTime() - new Date(a.createdAt).getTime()
Compare(a, b) == b.createdAt - a.createdAt

\* Array.prototype.sort with that comparator: a stable sort, so of two
\* messages that compare equal the one earlier in the list stays first.
SortByCreatedAt(msgs) ==
  LET RECURSIVE insert(_, _)
      insert(sorted, m) ==
        IF sorted = <<>> THEN <<m>>
        ELSE IF Compare(sorted[Len(sorted)], m) <= 0
        THEN Append(sorted, m)
        ELSE Append(insert(SubSeq(sorted, 1, Len(sorted) - 1), m), sorted[Len(sorted)])
      RECURSIVE from(_, _)
      from(i, res) == IF i > Len(msgs) THEN res ELSE from(i + 1, insert(res, msgs[i]))
  IN from(1, <<>>)

\* The body of the effect: the status to show for the received data, given
\* the status shown so far.
Effect(data, status) ==
  IF data = <<>> THEN status
  ELSE LET sorted == SortByCreatedAt(Filter(data))
       IN IF sorted = <<>> THEN status ELSE sorted[1].status

Message(kind, channel, topic, nodeId, status, createdAt) ==
  [kind |-> kind, channel |-> channel, topic |-> topic, nodeId |-> nodeId,
   status |-> status, createdAt |-> createdAt]

\* The messages the subscription can deliver: status messages of the hook's
\* node at two instants, and messages of another node, channel, topic or kind.
HookMessages ==
  {Message("data", HookChannel, HookTopic, HookNodeId, st, t) :
     st \in {"loading", "success"}, t \in {1, 2}}
  \cup {Message("data", HookChannel, HookTopic, 2, "error", 2),
        Message("data", "httpRequestChannel", HookTopic, HookNodeId, "error", 2),
        Message("data", HookChannel, "log", HookNodeId, "error", 2),
        Message("closed", HookChannel, HookTopic, HookNodeId, "error", 2)}

HookInit ==
  /\ hook = NoHook
  /\ webhook = NoWebhook
  /\ editor = NoEditor
  /\ rename = NoRename
  /\ button = NoButton
  /\ RunIdle

\* The subscription delivers a message: data changes and the effect runs.
Receive ==
  /\ Len(hook.data) < HookMaxMessages
  /\ \E msg \in HookMessages :
       LET data == Append(hook.data, msg)
       IN hook' = [data |-> data, status |-> Effect(data, hook.status)]
  /\ UNCHANGED <<runVars, webhook, editor, rename, button>>

HookNext == Receive

HookSpec == HookInit /\ [][HookNext]_vars

\* ------------------------------------------------ claims about useNodeStatus
Matching ==
  {i \in 1..Len(hook.data) :
     /\ hook.data[i].kind = "data"
     /\ hook.data[i].channel = HookChannel
     /\ hook.data[i].topic = HookTopic
     /\ hook.data[i].nodeId = HookNodeId}

\* C23: the status shown is the status of a message of greatest createdAt
\* among the received data messages of the hook's channel, topic and node;
\* other messages never change it; it is 'initial' until such a message
\* has been received.
C23_LatestMatchingStatus ==
  IF Matching = {}
  THEN hook.status = "initial"
  ELSE \E i \in Matching :
         /\ \A j \in Matching : hook.data[j].createdAt <= hook.data[i].createdAt
         /\ hook.status = hook.data[i].status

\* An older message of the node arrived after a newer one, with a message
\* of another node between them.
C23_Witness ==
  /\ Len(hook.data) = 3
  /\ hook.data[1] = Message("data", HookChannel, HookTopic, HookNodeId, "success", 2)
  /\ hook.data[2].nodeId # HookNodeId
  /\ hook.data[3] = Message("data", HookChannel, HookTopic, HookNodeId, "loading", 1)
  /\ hook.status = "success"

\* The node's received messages are the 'loading' and the 'success' of one
\* run, the second published no earlier than the first.
LoadingAndSuccessReceived ==
  \E i, j \in Matching :
    /\ Matching = {i, j}
    /\ hook.data[i].status = "loading"
    /\ hook.data[j].status = "success"
    /\ hook.data[i].createdAt <= hook.data[j].createdAt

\* C29: once the 'loading' and then the 'success' of a node have both been
\* received, the status shown is 'success', also when the two carry the same
\* createdAt, whatever their order in the received list.
C29_SuccessAfterLoading ==
  LoadingAndSuccessReceived => hook.status = "success"

\* ------------------------------------------------- the Stripe webhook route
\* url.searchParams.get(name): a string, empty for `?name=`, or null.
SearchParams == {Missing, "", "w1", "invoice.paid"}

\* !value of a search parameter
Falsy(value) == value \in {Missing, ""}

\* The request bodies: text that is not JSON, the JSON null, and event
\* objects with or without type and data.object.
Bodies ==
  {[json |-> j, type |-> Missing, id |-> Missing, created |-> Missing, livemode |-> Missing,
    object |-> Missing] : j \in {"invalid", "null"}}
  \cup [json : {"object"}, type : {Missing, "invoice.paid", "charge.failed"}, id : {"evt_1"},
        created : {"1700000000"}, livemode : {"false", "true"}, object : {Missing, "{...}"}]

\* A route that triggers on every event.
TypeDiffers_Never(body, eventType) == FALSE

\* body.type !== eventType
TypeDiffers(body, eventType) == body.type # eventType

\* The stripeData object built from the event.
stripeData(body) ==
  [eventId |-> body.id, eventType |-> body.type, timestamp |-> body.created,
   livemode |-> body.livemode, raw |-> body.object]

\* The argument of sendWorkflowExecution.
Execution(workflowId, body) ==
  [workflowId |-> workflowId, initialData |-> [k \in {"stripe"} |-> stripeData(body)]]

WebhookInit ==
  /\ webhook \in [request : [workflowId : SearchParams \ {"invoice.paid"},
                             eventType : SearchParams \ {"w1"},
                             body : Bodies],
                  reply : {NoReply}, sent : {<<>>}]
  /\ hook = NoHook
  /\ editor = NoEditor
  /\ rename = NoRename
  /\ button = NoButton
  /\ RunIdle

\* POST: the whole handler, up to its reply.
POST ==
  /\ webhook.reply = NoReply
  /\ LET request == webhook.request
         body == request.body
     IN IF Falsy(request.workflowId) \/ Falsy(request.eventType)
        THEN webhook' = [webhook EXCEPT !.reply = [status |-> 400, success |-> FALSE]]
        ELSE IF body.json # "object"
        THEN webhook' = [webhook EXCEPT !.reply = [status |-> 500, success |-> FALSE]]
        ELSE IF TypeDiffers(body, request.eventType)
        THEN webhook' = [webhook EXCEPT !.reply = [status |-> 200, success |-> TRUE]]
        ELSE \E rejected \in BOOLEAN :
               webhook' = [webhook EXCEPT
                             !.sent = Append(@, Execution(request.workflowId, body)),
                             !.reply = IF rejected THEN [status |-> 500, success |-> FALSE]
                                       ELSE [status |-> 200, success |-> TRUE]]
  /\ UNCHANGED <<runVars, hook, editor, rename, button>>

WebhookNext == POST

WebhookSpec == WebhookInit /\ [][WebhookNext]_vars

\* ------------------------------------------- claims about the webhook route
Replied == webhook.reply # NoReply

ParamsPresent ==
  webhook.request.workflowId \notin {Missing, ""} /\ webhook.request.eventType \notin {Missing, ""}

EventMatches ==
  webhook.request.body.json = "object" /\ webhook.request.body.type = webhook.request.eventType

\* C24: the route sends a workflow execution if and only if workflowId and
\* eventType are both present and body.type equals eventType: a missing
\* parameter answers 400 and sends nothing, an event of another type is
\* acknowledged with success and sends nothing, a matching event sends
\* exactly one execution for workflowId whose initial data holds the event
\* under the key stripe.
C24_SendsIffMatching ==
  Replied =>
    /\ webhook.sent # <<>> <=> (ParamsPresent /\ EventMatches)
    /\ ~ParamsPresent => webhook.reply.status = 400 /\ webhook.sent = <<>>
    /\ (ParamsPresent /\ webhook.request.body.json = "object" /\ ~EventMatches) =>
         /\ webhook.reply = [status |-> 200, success |-> TRUE]
         /\ webhook.sent = <<>>
    /\ (ParamsPresent /\ EventMatches) =>
         /\ Len(webhook.sent) = 1
         /\ webhook.sent[1].workflowId = webhook.request.workflowId
         /\ DOMAIN webhook.sent[1].initialData = {"stripe"}
         /\ webhook.sent[1].initialData["stripe"] =
              [eventId |-> webhook.request.body.id,
               eventType |-> webhook.request.eventType,
               timestamp |-> webhook.request.body.created,
               livemode |-> webhook.request.body.livemode,
               raw |-> webhook.request.body.object]

\* A matching event has been answered with success.
C24_Witness ==
  /\ webhook.reply = [status |-> 200, success |-> TRUE]
  /\ webhook.request.workflowId = "w1"
  /\ webhook.request.body.type = "invoice.paid"
  /\ webhook.request.body.object # Missing
  /\ Len(webhook.sent) = 1
  /\ webhook.sent[1].initialData["stripe"].eventId = "evt_1"

\* ------------------------------------ further claims about the HTTP executor
StepReached == AfterStep /\ ValidConfig /\ ~EndpointFails

\* C25: for GET and DELETE the body of the configuration is not resolved,
\* not validated and not sent, so no body, however malformed, makes the
\* executor fail; for POST, PUT and PATCH with no body configured the body
\* sent is the empty JSON object.
C25_BodyOnlyForBodyMethods ==
  /\ (StepReached /\ call.data.method \in {"GET", "DELETE"}) =>
       /\ Len(requests) = 1
       /\ ~requests[1].hasBody
       /\ requests[1].body = <<>>
       /\ requests[1].contentType = Missing
       /\ error.kind \notin {"NonRetriableError", "Error"}
  /\ (StepReached /\ call.data.method \in {"POST", "PUT", "PATCH"} /\ call.data.body = <<>>) =>
       /\ Len(requests) = 1
       /\ requests[1].hasBody
       /\ requests[1].body = <<"{}">>
       /\ requests[1].contentType = "application/json"

\* A DELETE whose body is not a template has got its answer.
C25_Witness ==
  /\ pc = "returned"
  /\ call.data.method = "DELETE"
  /\ call.data.body = <<BadPart>>
  /\ Len(requests) = 1
  /\ ~requests[1].hasBody

\* ------------------------------------------------------------------ the editor
\* addEdge(params, edges): the edge is appended unless one with the same
\* source and target is there.
addEdge(params, edges) ==
  IF \E i \in 1..Len(edges) : edges[i] = params THEN edges ELSE Append(edges, params)

\* currentNodes.filter(node => node.id !== id)
NodesWithout(nodes, id) ==
  LET RECURSIVE from(_, _)
      from(i, res) == IF i > Len(nodes) THEN res
                      ELSE from(i + 1, IF nodes[i] # id THEN Append(res, nodes[i]) ELSE res)
  IN from(1, <<>>)

\* A filter that keeps the edges that end at the node.
EdgesWithout_SourceOnly(edges, id) ==
  LET RECURSIVE from(_, _)
      from(i, res) == IF i > Len(edges) THEN res
                      ELSE from(i + 1, IF edges[i].source # id
                                       THEN Append(res, edges[i]) ELSE res)
  IN from(1, <<>>)

\* currentEdges.filter(edge => edge.source !== id && edge.target !== id)
EdgesWithout(edges, id) ==
  LET RECURSIVE from(_, _)
      from(i, res) == IF i > Len(edges) THEN res
                      ELSE from(i + 1, IF edges[i].source # id /\ edges[i].target # id
                                       THEN Append(res, edges[i]) ELSE res)
  IN from(1, <<>>)

\* The editor mounted on a stored workflow of up to EditorMaxNodes nodes.
EditorInit ==
  /\ \E n \in 1..EditorMaxNodes : editor = [nodes |-> [i \in 1..n |-> i], edges |-> <<>>]
  /\ hook = NoHook
  /\ webhook = NoWebhook
  /\ rename = NoRename
  /\ button = NoButton
  /\ RunIdle

\* onConnect: a handle of one node on the canvas is dragged to a handle of
\* another.
onConnect ==
  /\ Len(editor.edges) < EditorMaxEdges
  /\ \E source, target \in SeqToSet(editor.nodes) :
       editor' = [editor EXCEPT !.edges = addEdge([source |-> source, target |-> target], @)]
  /\ UNCHANGED <<runVars, hook, webhook, rename, button>>

\* handleConfirmedDelete of the node with the given id, of either base node.
handleConfirmedDelete ==
  /\ \E id \in SeqToSet(editor.nodes) :
       editor' = [nodes |-> NodesWithout(editor.nodes, id),
                  edges |-> EdgesWithout(editor.edges, id)]
  /\ UNCHANGED <<runVars, hook, webhook, rename, button>>

EditorNext == onConnect \/ handleConfirmedDelete

EditorSpec == EditorInit /\ [][EditorNext]_vars

\* ---------------------------------------------------- claims about the editor
\* C26: a confirmed deletion removes the node and every edge whose source or
\* target it is, so after any sequence of connections and confirmed
\* deletions no edge references a node that is absent from the node list.
C26_NoDanglingEdge ==
  /\ [](\A i \in 1..Len(editor.edges) :
          /\ editor.edges[i].source \in SeqToSet(editor.nodes)
          /\ editor.edges[i].target \in SeqToSet(editor.nodes))
  /\ [][\A id \in SeqToSet(editor.nodes) :
          id \notin SeqToSet(editor.nodes') =>
            /\ SeqToSet(editor.nodes') = SeqToSet(editor.nodes) \ {id}
            /\ SeqToSet(editor.edges') =
                 {e \in SeqToSet(editor.edges) : e.source # id /\ e.target # id}]_vars

\* Node 2 of three has been deleted and an edge between the two other nodes
\* is left.
C26_Witness ==
  /\ editor.nodes = <<1, 3>>
  /\ editor.edges = <<[source |-> 1, target |-> 3]>>

\* ------------------------------------------------------ useUpdateWorkflowName
\* The name the m-th rename asks for.
NewName(m) == <<"a", "b", "c", "d">>[m]

OriginalName == "original"

\* A rename not yet asked for.
IdleMutation(m) ==
  [state |-> "idle", name |-> NewName(m), previousWorkflow |-> "", previousWorkflows |-> ""]

\* The page of a workflow, its name loaded into both queries.
RenameInit ==
  /\ rename = [server |-> OriginalName, one |-> OriginalName, many |-> OriginalName,
               refetching |-> FALSE,
               mutations |-> [m \in 1..MaxRenames |-> IdleMutation(m)]]
  /\ hook = NoHook
  /\ webhook = NoWebhook
  /\ editor = NoEditor
  /\ button = NoButton
  /\ RunIdle

\* mutate({id, name}) and its onMutate: the refetches under way are
\* cancelled, both cached values are kept for the rollback and the new name
\* is written into both.
onMutate ==
  \E m \in 1..MaxRenames :
    /\ rename.mutations[m].state = "idle"
    /\ rename' = [rename EXCEPT
                    !.refetching = FALSE,
                    !.one = NewName(m),
                    !.many = NewName(m),
                    !.mutations[m] = [state |-> "pending", name |-> NewName(m),
                                      previousWorkflow |-> rename.one,
                                      previousWorkflows |-> rename.many]]
    /\ UNCHANGED <<runVars, hook, webhook, editor, button>>

\* The server handles the request of a rename: it stores the name, or
\* rejects it.
updateName ==
  \E m \in 1..MaxRenames :
    /\ rename.mutations[m].state = "pending"
    /\ \/ rename' = [rename EXCEPT !.server = NewName(m), !.mutations[m].state = "success"]
       \/ rename' = [rename EXCEPT !.mutations[m].state = "error"]
    /\ UNCHANGED <<runVars, hook, webhook, editor, button>>

\* if (data) { invalidateQueries ... }: whether onSettled starts the refetch.
onSettled(data) == data

\* The answer of a rejected rename reaches the client: onError, then
\* onSettled with no data.
onError ==
  \E m \in 1..MaxRenames :
    /\ rename.mutations[m].state = "error"
    /\ rename' = [rename EXCEPT
                    !.one = rename.mutations[m].previousWorkflow,
                    !.many = rename.mutations[m].previousWorkflows,
                    !.refetching = IF onSettled(FALSE) THEN TRUE ELSE @,
                    !.mutations[m].state = "settled"]
    /\ UNCHANGED <<runVars, hook, webhook, editor, button>>

\* The answer of a stored rename reaches the client: onSuccess, then
\* onSettled with the workflow.
onSuccess ==
  \E m \in 1..MaxRenames :
    /\ rename.mutations[m].state = "success"
    /\ rename' = [rename EXCEPT
                    !.refetching = IF onSettled(TRUE) THEN TRUE ELSE @,
                    !.mutations[m].state = "settled"]
    /\ UNCHANGED <<runVars, hook, webhook, editor, button>>

\* A refetch started by invalidateQueries completes: both queries hold what
\* the server holds.
Refetch ==
  /\ rename.refetching
  /\ rename' = [rename EXCEPT !.one = rename.server, !.many = rename.server,
                              !.refetching = FALSE]
  /\ UNCHANGED <<runVars, hook, webhook, editor, button>>

RenameNext == onMutate \/ updateName \/ onError \/ onSuccess \/ Refetch

RenameSpec == RenameInit /\ [][RenameNext]_vars

\* --------------------------------------------- claims about the rename hook
AllSettled ==
  /\ \A m \in 1..MaxRenames : rename.mutations[m].state \in {"idle", "settled"}
  /\ \E m \in 1..MaxRenames : rename.mutations[m].state = "settled"
  /\ ~rename.refetching

\* C27: once every rename under way has settled, in any interleaving of
\* overlapping renames that succeed or fail, the cached workflow and the
\* cached list hold the name the server holds, never a name it rejected.
C27_CacheAgreesWithServer ==
  AllSettled => rename.one = rename.server /\ rename.many = rename.server

\* ------------------------------------------ the node types of the editor
\* The keys of nodeComponents: the node types the editor can place.
nodeComponents ==
  {"INITIAL", "HTTP_REQUEST", "MANUAL_TRIGGER", "GOOGLE_FORM_TRIGGER", "STRIPE_TRIGGER"}

\* C28: every node type the editor can place has an executor, so a run of a
\* workflow made of such nodes, the STRIPE_TRIGGER node of a workflow
\* started by the Stripe webhook among them, never fails on the lookup of
\* an executor.
C28_EditorTypesHaveExecutors ==
  (\A i \in 1..Len(workflow.nodes) : workflow.nodes[i].type \in nodeComponents) =>
    /\ \A i \in 1..Len(sortedNodes) : ~getExecutor(sortedNodes[i].type).threw
    /\ ~(pc = "failed" /\ error.message = "No executor found for node type")

\* ------------------------------------------------ the Execute Workflow button
\* The graph on screen and the stored graph are versions of the workflow's
\* nodes and edges: 0 is the graph loaded from storage, each change of the
\* editor makes the next one.
ButtonInit ==
  /\ button = NoButton
  /\ hook = NoHook
  /\ webhook = NoWebhook
  /\ editor = NoEditor
  /\ rename = NoRename
  /\ RunIdle

\* onInit={setEditor}: the React Flow instance is put into editorAtom.
setEditor ==
  /\ ~button.editor
  /\ button' = [button EXCEPT !.editor = TRUE]
  /\ UNCHANGED <<runVars, hook, webhook, editor, rename>>

\* The user changes the graph on screen.
Edit ==
  /\ button.editor
  /\ button.screen < MaxEdits
  /\ button' = [button EXCEPT !.screen = @ + 1]
  /\ UNCHANGED <<runVars, hook, webhook, editor, rename>>

\* The button is disabled while the execute mutation is pending.
Disabled == \E i \in 1..Len(button.executions) : button.executions[i].state = "pending"

\* handleExecute: without an editor nothing happens, else the save mutation
\* is started with the nodes and edges on screen.
handleExecute ==
  /\ ~Disabled
  /\ button.clicks < MaxClicks
  /\ IF ~button.editor
     THEN button' = [button EXCEPT !.clicks = @ + 1]
     ELSE button' = [button EXCEPT
                       !.clicks = @ + 1,
                       !.saves = Append(@, [graph |-> button.screen, state |-> "pending"])]
  /\ UNCHANGED <<runVars, hook, webhook, editor, rename>>

\* The server handles the request of a save: it stores the graph, or
\* rejects it.
update ==
  \E k \in 1..Len(button.saves) :
    /\ button.saves[k].state = "pending"
    /\ \/ button' = [button EXCEPT !.stored = button.saves[k].graph,
                                   !.saves[k].state = "success"]
       \/ button' = [button EXCEPT !.saves[k].state = "error"]
    /\ UNCHANGED <<runVars, hook, webhook, editor, rename>>

\* The answer of a save reaches the client: the onSuccess given to mutate
\* runs for a stored save, if no later mutate was called on the hook, and
\* starts the execute mutation.
saveSettled ==
  \E k \in 1..Len(button.saves) :
    /\ button.saves[k].state \in {"success", "error"}
    /\ IF button.saves[k].state = "success" /\ k = Len(button.saves)
       THEN button' = [button EXCEPT
                         !.saves[k].state = "settled",
                         !.executions = Append(@, [graph |-> button.saves[k].graph,
                                                   state |-> "pending", read |-> 0])]
       ELSE button' = [button EXCEPT !.saves[k].state = "settled"]
    /\ UNCHANGED <<runVars, hook, webhook, editor, rename>>

\* The execution asked for starts: the run reads the stored workflow.
execute ==
  \E i \in 1..Len(button.executions) :
    /\ button.executions[i].state = "pending"
    /\ button' = [button EXCEPT !.executions[i].state = "started",
                                !.executions[i].read = button.stored]
    /\ UNCHANGED <<runVars, hook, webhook, editor, rename>>

ButtonNext == setEditor \/ Edit \/ handleExecute \/ update \/ saveSettled \/ execute

ButtonSpec == ButtonInit /\ [][ButtonNext]_vars

\* -------------------------------------- claims about the Execute Workflow button
\* The save of the graph that was on screen at the click of the execution
\* has been stored.
SavedBefore(e) ==
  \E k \in 1..Len(button.saves) :
    /\ button.saves[k].graph = e.graph
    /\ button.saves[k].state = "settled"

\* C30: the execute mutation is sent only after the save carrying the
\* nodes and edges on screen at the click has succeeded; without an editor,
\* or when the save fails, no execution is asked for; so a run never starts
\* from a graph older than the one on screen at the click.
C30_ExecuteAfterSave ==
  /\ Len(button.executions) <= Len(button.saves)
  /\ \A i \in 1..Len(button.executions) :
       LET e == button.executions[i]
       IN /\ SavedBefore(e)
          /\ e.state = "started" => e.read >= e.graph

====
